---------------------------- MODULE Spec2Model ----------------------------
(***************************************************************************)
(* The validator enode announce protocol of the istanbul backend            *)
(* (consensus/istanbul/backend/announce.go).                                *)
(*                                                                          *)
(* One node (address Self) owns an announce cache (cachedAnnounceMsgs), a   *)
(* regossip throttle (lastAnnounceGossiped) and a validator-endpoint table  *)
(* (valEnodeTable).  Peers deliver announce payloads to handleAnnounceMsg,  *)
(* the announce thread spawns gossipAnnounce goroutines, the chain changes  *)
(* the registered-or-active validator set and the clock advances.           *)
(*                                                                          *)
(* handleAnnounceMsg holds cachedAnnounceMsgsMu from its staleness check    *)
(* to its return, and regossipAnnounce is only called from inside it, so    *)
(* one handler run is one step.  gossipAnnounce takes no lock: it is two    *)
(* steps (generateAnnounce, then the cache write and the multicast), and    *)
(* several of its goroutines may be in flight.  The validator set of a      *)
(* handler step is the set that run retrieved.                              *)
(*                                                                          *)
(* A connected peer runs the same code; the two exchange the version        *)
(* reconciliation messages (GetAnnounceVersions, AnnounceVersions,          *)
(* GetAnnounces, Announce).                                                 *)
(***************************************************************************)
EXTENDS Integers, Sequences, FiniteSets, TLC

(***************************************************************************)
(* Bounds of the model.                                                     *)
(***************************************************************************)
\* Peers' announces carry timestamps 1..MaxTs.
MaxTs == 2
\* The clock advances MaxTicks times.
MaxTicks == 2
\* gossipAnnounce goroutines that have generated and not yet stored.
MaxInFlight == 2

(***************************************************************************)
(* Program constants.                                                       *)
(***************************************************************************)
\* time.Minute, in seconds: the regossip window of regossipAnnounce.
Minute == 60
\* The modulus of the prune gate, (mrand.Int() % 100) <= 5.
GateModulus == 100
\* The threshold of the prune gate.
GateThreshold == 5

\* One step of the clock: half the regossip window.
TickSeconds == Minute \div 2
MaxNow == MaxTicks * TickSeconds

(***************************************************************************)
(* Addresses, endpoints, payloads.                                          *)
(***************************************************************************)
\* This node's address, sb.Address().
Self == 1
\* The validator identities of the model: this node and two others.
Addresses == {1, 2, 3}
\* The other validators: the keys a peer's announce can be signed with.
Peers == Addresses \ {Self}

\* An enode URL is an opaque string; 0 stands for bytes that do not parse.
GarbageURL == 0
GoodURLs == {1, 2}
\* p2pserver.Self().String(): this node's own endpoint.
SelfURL == 1
NoNode == [parsed |-> FALSE]

Timestamps == 1..MaxTs

\* enode.ParseV4: a node for a well-formed URL, an error otherwise.
ParseV4(enodeUrl) ==
    IF enodeUrl \in GoodURLs THEN [parsed |-> TRUE, url |-> enodeUrl] ELSE NoNode

\* istanbul.RLPHash: Keccak-256 of the RLP encoding, collision free.
RLPHash(x) == <<"keccak", x>>

\* common.Address.String(): the hex form of an address.
AddressString(addr) == <<"0x", addr>>
\* Lexicographic order of two address strings.
StringLess(s, t) == s[2] < t[2]

\* One encryptedEnode.
EncryptedEnode(addr, url) == [DecrypterAddress |-> addr, EncryptedEnodeURL |-> url]

\* The EncryptedEnodes of a payload: one entry per address of dests, each
\* carrying the same bytes (generateAnnounce writes the plaintext URL).
EncryptedEnodesOf(dests, url) ==
    [i \in 1..Len(dests) |-> EncryptedEnode(dests[i], url)]

\* The wire payload of a signed announce: istanbul.Message{Code, Msg, Address,
\* Signature} with Msg the RLP of valEncryptedEnodes.  Signature is modelled
\* by the address it recovers to; MsgDecodes is whether Msg is the RLP of a
\* valEncryptedEnodes.
AnnouncePayload(address, signer, valAddress, dests, url, ts, decodes) ==
    [Address    |-> address,
     Signature  |-> signer,
     MsgDecodes |-> decodes,
     Msg        |-> [ValAddress      |-> valAddress,
                     EncryptedEnodes |-> EncryptedEnodesOf(dests, url),
                     EnodeURLHash    |-> RLPHash(url),
                     Timestamp       |-> ts]]

\* A valid announce of validator a: signed by a, naming a.
Announce(a, dests, url, ts) == AnnouncePayload(a, a, a, dests, url, ts, TRUE)

\* The draws of mrand.Int() the model takes: either side of the gate.
RandDraws == {GateThreshold, GateThreshold + 1}

(***************************************************************************)
(* Maps (Go maps are partial functions).                                    *)
(***************************************************************************)
EmptyMap == [x \in {} |-> 0]
Put(m, k, v) == [x \in DOMAIN m \cup {k} |-> IF x = k THEN v ELSE m[x]]
\* The entries of m whose key is in keep.
PruneNotIn(m, keep) == [x \in DOMAIN m \cap keep |-> m[x]]

\* sort.Strings, by insertion.
RECURSIVE InsertSorted(_, _)
InsertSorted(sorted, s) ==
    IF sorted = <<>> THEN <<s>>
    ELSE IF StringLess(s, Head(sorted)) THEN <<s>> \o sorted
    ELSE <<Head(sorted)>> \o InsertSorted(Tail(sorted), s)

RECURSIVE SortStrings(_)
SortStrings(strs) ==
    IF strs = <<>> THEN <<>>
    ELSE InsertSorted(SortStrings(Tail(strs)), Head(strs))

(***************************************************************************)
(* Errors.                                                                  *)
(***************************************************************************)
ErrNil == "nil"
ErrInvalidSigner == "errInvalidSigner"
ErrUnauthorizedAnnounceMessage == "errUnauthorizedAnnounceMessage"
ErrDecode == "errDecode"
ErrOldAnnounceMessage == "errOldAnnounceMessage"
ErrParseV4 == "errParseV4"

(***************************************************************************)
(* handleAnnounceMsg and regossipAnnounce, as functions of the node's state *)
(* and their inputs.                                                        *)
(***************************************************************************)
\* msg.FromPayload(payload, istanbul.GetSignatureAddress): the signer
\* recovered from the signature must be the declared Address.
FromPayload(payload) ==
    IF payload.Signature = payload.Address THEN ErrNil ELSE ErrInvalidSigner

\* Mutant: every signer is authorized.
AnySignerAuthorized(regAndActiveVals, address) == TRUE

\* The authorization test of handleAnnounceMsg.
IsAuthorized(regAndActiveVals, address) == address \in regAndActiveVals

\* Mutant: only a strictly older announce is stale.
IsStrictlyOlderAnnounce(cache, address, ts) ==
    address \in DOMAIN cache /\ cache[address].MsgTimestamp > ts

\* The staleness test of handleAnnounceMsg.
IsOldAnnounce(cache, address, ts) ==
    address \in DOMAIN cache /\ cache[address].MsgTimestamp >= ts

\* One iteration of the loop over announcePayload.EncryptedEnodes.
ScanStep(acc, ee, regAndActiveVals, self) ==
    IF acc.err # ErrNil THEN acc
    ELSE IF ee.DecrypterAddress \notin regAndActiveVals
            \/ ee.DecrypterAddress \in acc.processedAddresses
    THEN [acc EXCEPT !.msgHasDupsOrIrrelevantEntries = TRUE]
    ELSE IF ee.DecrypterAddress = self /\ ParseV4(ee.EncryptedEnodeURL) = NoNode
    THEN [acc EXCEPT !.err = ErrParseV4]
    ELSE [acc EXCEPT
            !.node = IF ee.DecrypterAddress = self
                     THEN ParseV4(ee.EncryptedEnodeURL) ELSE @,
            !.destAddresses = Append(@, AddressString(ee.DecrypterAddress)),
            !.processedAddresses = @ \cup {ee.DecrypterAddress}]

RECURSIVE ScanFrom(_, _, _, _, _)
ScanFrom(enodes, i, acc, regAndActiveVals, self) ==
    IF i > Len(enodes) THEN acc
    ELSE ScanFrom(enodes, i + 1, ScanStep(acc, enodes[i], regAndActiveVals, self),
                  regAndActiveVals, self)

\* The scan of the recipient list, run only by a validator whose core is
\* started; any other node leaves destAddresses empty and the flag false.
ScanEncryptedEnodes(enodes, regAndActiveVals, self, started) ==
    LET acc0 == [destAddresses |-> <<>>, processedAddresses |-> {},
                 msgHasDupsOrIrrelevantEntries |-> FALSE,
                 node |-> NoNode, err |-> ErrNil]
    IN  IF started /\ self \in regAndActiveVals
        THEN ScanFrom(enodes, 1, acc0, regAndActiveVals, self)
        ELSE acc0

\* Mutant: the throttle window is half a minute.
RecentlyGossipedHalfMinute(throttle, address, enodeURLHash, destAddressesHash, clock) ==
    /\ address \in DOMAIN throttle
    /\ throttle[address].enodeURLHash = enodeURLHash
    /\ throttle[address].destAddressesHash = destAddressesHash
    /\ clock - throttle[address].timestamp < TickSeconds

\* Mutant: the throttle test without the comparison of the two hashes.
RecentlyGossipedAnyHashes(throttle, address, enodeURLHash, destAddressesHash, clock) ==
    /\ address \in DOMAIN throttle
    /\ clock - throttle[address].timestamp < Minute

\* The throttle test of regossipAnnounce: gossiped within the last minute
\* with the same two hashes.
RecentlyGossiped(throttle, address, enodeURLHash, destAddressesHash, clock) ==
    /\ address \in DOMAIN throttle
    /\ throttle[address].enodeURLHash = enodeURLHash
    /\ throttle[address].destAddressesHash = destAddressesHash
    /\ clock - throttle[address].timestamp < Minute

\* The prune gate of regossipAnnounce.
PruneGate(draw) == (draw % GateModulus) <= GateThreshold

\* valEnodeTable.Upsert and valEnodeTable.PruneEntries.
Upsert(table, address, node, ts) == Put(table, address, [Node |-> node, Timestamp |-> ts])
PruneEntries(table, regAndActiveVals) == PruneNotIn(table, regAndActiveVals)

\* regossipAnnounce: what it leaves in the throttle and the endpoint table,
\* whether it multicast and whether its prune ran.
RegossipAnnounce(throttle, table, payload, regAndActiveVals, destAddresses, clock, draw) ==
    LET destAddressesHash == RLPHash(SortStrings(destAddresses))
        enodeURLHash == payload.Msg.EnodeURLHash
        recorded == Put(throttle, payload.Address,
                        [enodeURLHash |-> enodeURLHash,
                         destAddressesHash |-> destAddressesHash,
                         timestamp |-> clock])
    IN  IF RecentlyGossiped(throttle, payload.Address, enodeURLHash, destAddressesHash, clock)
        THEN [throttle |-> throttle, table |-> table, multicast |-> FALSE,
              pruned |-> FALSE, destAddressesHash |-> destAddressesHash]
        ELSE IF PruneGate(draw)
        THEN [throttle |-> PruneNotIn(recorded, regAndActiveVals),
              table |-> PruneEntries(table, regAndActiveVals),
              multicast |-> TRUE, pruned |-> TRUE,
              destAddressesHash |-> destAddressesHash]
        ELSE [throttle |-> recorded, table |-> table, multicast |-> TRUE,
              pruned |-> FALSE, destAddressesHash |-> destAddressesHash]

\* The result of a handler run that changes nothing.
Rejected(err, cache, throttle, table) ==
    [err |-> err, cache |-> cache, throttle |-> throttle, table |-> table,
     admitted |-> FALSE, multicast |-> FALSE, pruned |-> FALSE,
     destAddressesHash |-> RLPHash(<<>>)]

\* Mutant: the cache write without the prune that follows it.
AdmitWithoutPrune(cache, payload, regAndActiveVals) ==
    Put(cache, payload.Address,
        [MsgTimestamp |-> payload.Msg.Timestamp, MsgPayload |-> payload])

\* Mutant: the prune without the cache write before it.
PruneWithoutAdmit(cache, payload, regAndActiveVals) ==
    PruneNotIn(cache, regAndActiveVals)

\* Mutant: the cache write keyed by the inner ValAddress, not by the signer.
AdmitUnderValAddress(cache, payload, regAndActiveVals) ==
    PruneNotIn(Put(cache, payload.Msg.ValAddress,
                   [MsgTimestamp |-> payload.Msg.Timestamp, MsgPayload |-> payload]),
               regAndActiveVals)

\* The cache write and the cache prune of handleAnnounceMsg.
AdmitAndPrune(cache, payload, regAndActiveVals) ==
    PruneNotIn(Put(cache, payload.Address,
                   [MsgTimestamp |-> payload.Msg.Timestamp, MsgPayload |-> payload]),
               regAndActiveVals)

\* handleAnnounceMsg on the node state (cache, throttle, table), with the
\* validator set it retrieved, the clock and the draw of the prune gate.
HandleAnnounceMsg(cache, throttle, table, payload, regAndActiveVals, self, started, clock, draw) ==
    IF FromPayload(payload) # ErrNil
    THEN Rejected(FromPayload(payload), cache, throttle, table)
    ELSE IF ~IsAuthorized(regAndActiveVals, payload.Address)
    THEN Rejected(ErrUnauthorizedAnnounceMessage, cache, throttle, table)
    ELSE IF ~payload.MsgDecodes
    THEN Rejected(ErrDecode, cache, throttle, table)
    ELSE IF IsOldAnnounce(cache, payload.Address, payload.Msg.Timestamp)
    THEN Rejected(ErrOldAnnounceMessage, cache, throttle, table)
    ELSE
      LET scan == ScanEncryptedEnodes(payload.Msg.EncryptedEnodes, regAndActiveVals,
                                      self, started)
          upserted == IF scan.node # NoNode
                      THEN Upsert(table, payload.Address, scan.node, payload.Msg.Timestamp)
                      ELSE table
      IN  IF scan.err # ErrNil
          THEN Rejected(scan.err, cache, throttle, table)
          ELSE IF scan.msgHasDupsOrIrrelevantEntries
          THEN [Rejected(ErrNil, cache, throttle, upserted) EXCEPT !.table = upserted]
          ELSE
            LET re == RegossipAnnounce(throttle, upserted, payload, regAndActiveVals,
                                       scan.destAddresses, clock, draw)
            IN  [err |-> ErrNil,
                 cache |-> AdmitAndPrune(cache, payload, regAndActiveVals),
                 throttle |-> re.throttle, table |-> re.table,
                 admitted |-> TRUE, multicast |-> re.multicast, pruned |-> re.pruned,
                 destAddressesHash |-> re.destAddressesHash]

(***************************************************************************)
(* gossipAnnounce, as functions.                                            *)
(***************************************************************************)
\* The orders in which a Go map range can visit the set s.
RangeOrders(s) ==
    {seq \in [1..Cardinality(s) -> s] : \A i, j \in 1..Cardinality(s) : seq[i] = seq[j] => i = j}

(***************************************************************************)
(* The proxy configuration of generateAnnounce.                             *)
(***************************************************************************)
ErrNoProxyConnection == "errNoProxyConnection"

\* sb.config.Proxied, and whether sb.proxyNode is set.
Config(proxied, proxyNode) == [Proxied |-> proxied, proxyNode |-> proxyNode]
Configs == {Config(proxied, proxyNode) : proxied, proxyNode \in BOOLEAN}

\* A generateAnnounce that never misses its proxy.
AlwaysProxyConnection(cfg) == FALSE

\* generateAnnounce fails: a proxied node that is not connected to a proxy.
NoProxyConnection(cfg) == cfg.Proxied /\ ~cfg.proxyNode

\* sb.proxyNode.externalNode.String()
ProxyURL == 2

\* The enode URL this node announces: its proxy's if it is proxied, its own
\* otherwise.
OwnEnodeURL(cfg) == IF cfg.Proxied THEN ProxyURL ELSE SelfURL

\* generateAnnounce followed by Sign and Payload: this node's announce for
\* the validator set it retrieved, visited in the given order, at the clock.
GenerateAnnounce(self, enodeUrl, order, clock) ==
    AnnouncePayload(self, self, self, order, enodeUrl, clock, TRUE)

\* The cache write of gossipAnnounce: under the payload's ValAddress, with no
\* lock taken and no comparison with the entry it replaces.
CacheOwnAnnounce(cache, payload) ==
    Put(cache, payload.Msg.ValAddress,
        [MsgTimestamp |-> payload.Msg.Timestamp, MsgPayload |-> payload])

\* Mutant: a gossipAnnounce that multicasts whoever this node is.
AlwaysMulticastsOwnAnnounce(regAndActiveVals, self) == TRUE

\* Whether gossipAnnounce multicasts what it cached.
MulticastsOwnAnnounce(regAndActiveVals, self) == self \in regAndActiveVals

(***************************************************************************)
(* Version reconciliation, as functions.                                    *)
(***************************************************************************)
\* handleGetAnnounceVersionsMsg: the version of every cached announce.
AnnounceVersions(cache) ==
    {[ValAddress |-> a, AnnounceMsgTimestamp |-> cache[a].MsgTimestamp] : a \in DOMAIN cache}

\* A comparison that also requests what is cached at the same version.
AnnouncesNotNewerToRequest(cache, announceVersions, regAndActiveVals) ==
    {v.ValAddress : v \in
        {w \in announceVersions :
            /\ w.ValAddress \in regAndActiveVals
            /\ \/ w.ValAddress \notin DOMAIN cache
               \/ cache[w.ValAddress].MsgTimestamp <= w.AnnounceMsgTimestamp}}

\* handleAnnounceVersionsMsg: the addresses whose announce is requested, those
\* of the validator set that are not cached or are cached at a lower version.
AnnouncesToRequest(cache, announceVersions, regAndActiveVals) ==
    {v.ValAddress : v \in
        {w \in announceVersions :
            /\ w.ValAddress \in regAndActiveVals
            /\ \/ w.ValAddress \notin DOMAIN cache
               \/ cache[w.ValAddress].MsgTimestamp < w.AnnounceMsgTimestamp}}

\* A reply with every cached payload, requested or not.
AllCachedAnnounces(cache, valAddresses) ==
    {cache[a].MsgPayload : a \in DOMAIN cache}

\* handleGetAnnouncesMsg: the cached payloads of the requested addresses.
CachedAnnounces(cache, valAddresses) ==
    {cache[a].MsgPayload : a \in valAddresses \cap DOMAIN cache}

(***************************************************************************)
(* announceThread, as functions of the loop's locals.                       *)
(***************************************************************************)
HighFreqBeforeFirstPeerState == "HighFreqBeforeFirstPeerState"
HighFreqAfterFirstPeerState == "HighFreqAfterFirstPeerState"
LowFreqState == "LowFreqState"

HighFreqTickerDuration == 1 * Minute
LowFreqTickerDuration == 10 * Minute
\* The period of announceVersionsCheckTicker.
VersionsCheckTickerDuration == 10 * Minute
\* Gossip ticks counted in HighFreqAfterFirstPeerState before the decay.
NumHighFreqMsgsAfterFirstPeer == 10

\* A *time.Ticker: nil, or a ticker with its period that runs or was stopped.
NilTicker == [isNil |-> TRUE]
NewTicker(d) == [isNil |-> FALSE, period |-> d, stopped |-> FALSE]
StopTicker(ticker) == [ticker EXCEPT !.stopped = TRUE]
\* announceGossipTickerCh: nil, or the channel of announceGossipTicker.
NilCh == "nil"
TickerCh == "announceGossipTicker.C"

\* What one iteration of the loop did: the case it took; the frequency
\* state, ticker duration and counter it found in l and the peers connected
\* at that time; the frequency state at each go sb.gossipAnnounce() it ran;
\* the number of go sb.checkPeersAnnounceVersions() it ran, and the
\* GetAnnounceVersions these sent to each peer.
Did(event, l, emissions, checks, sent) ==
    [event |-> event,
     observed |-> l.announceGossipFrequencyState,
     duration |-> l.currentAnnounceGossipTickerDuration,
     counted |-> l.numGossipedMsgsInHighFreqAfterFirstPeerState,
     peers |-> l.peers,
     emissions |-> emissions, checks |-> checks, sent |-> sent]

\* checkPeersAnnounceVersions: one sendGetAnnounceVersions per peer found.
CheckPeersSends(peers) == [p \in peers |-> 1]

\* The loop when it enters its select for the first time.
LoopStart ==
    [pc |-> "running",
     announceThreadWg |-> 1,
     announceVersionsCheckTicker |-> NewTicker(VersionsCheckTickerDuration),
     announceGossipTicker |-> NilTicker,
     announceGossipTickerCh |-> NilCh,
     announceGossipFrequencyState |-> HighFreqBeforeFirstPeerState,
     currentAnnounceGossipTickerDuration |-> 0,
     numGossipedMsgsInHighFreqAfterFirstPeerState |-> 0,
     quit |-> FALSE,
     peers |-> {},
     tasks |-> 0,
     did |-> [event |-> "start", observed |-> HighFreqBeforeFirstPeerState,
              duration |-> 0, counted |-> 0, peers |-> {},
              emissions |-> <<>>, checks |-> 0, sent |-> EmptyMap]]

\* A start that keeps the count of the previous run.
RestartGossipKeepingCount(l) ==
    [l EXCEPT !.announceGossipFrequencyState = HighFreqBeforeFirstPeerState,
              !.currentAnnounceGossipTickerDuration = HighFreqTickerDuration,
              !.announceGossipTicker = NewTicker(HighFreqTickerDuration),
              !.announceGossipTickerCh = TickerCh]

\* The assignments of the coreRunning branch.
RestartGossip(l) ==
    [l EXCEPT !.announceGossipFrequencyState = HighFreqBeforeFirstPeerState,
              !.currentAnnounceGossipTickerDuration = HighFreqTickerDuration,
              !.numGossipedMsgsInHighFreqAfterFirstPeerState = 0,
              !.announceGossipTicker = NewTicker(HighFreqTickerDuration),
              !.announceGossipTickerCh = TickerCh]

\* The else branch of the core start/stop case when the ticker is nil.
StopsNilTicker(l, coreRunning) == ~coreRunning /\ l.announceGossipTicker = NilTicker

\* case coreRunning := <-sb.coreStartStopCh.  Stopping a nil ticker is a nil
\* pointer dereference: the goroutine panics.
OnCoreStartStop(l, coreRunning) ==
    LET did == Did(IF coreRunning THEN "coreStart" ELSE "coreStop", l,
                   IF coreRunning THEN <<l.announceGossipFrequencyState>> ELSE <<>>,
                   0, EmptyMap)
    IN  IF coreRunning
        THEN [RestartGossip(l) EXCEPT !.did = did]
        ELSE IF StopsNilTicker(l, coreRunning)
        THEN [l EXCEPT !.pc = "panicked", !.did = did]
        ELSE [l EXCEPT !.announceGossipTicker = StopTicker(@),
                       !.announceGossipTickerCh = NilCh,
                       !.did = did]

\* A new epoch case that gossips whether or not the core is started.
AlwaysEmitsOnNewEpoch(started) == TRUE

\* if sb.coreStarted { go sb.gossipAnnounce() } of the new epoch case.
EmitsOnNewEpoch(started) == started

\* case <-sb.newEpochCh.
OnNewEpoch(l, started) ==
    [l EXCEPT !.did = Did("newEpoch", l,
                          IF EmitsOnNewEpoch(started)
                          THEN <<l.announceGossipFrequencyState>> ELSE <<>>,
                          1, CheckPeersSends(l.peers))]

\* A loop that waits for a second peer.
FoundSecondPeer(peers) == Cardinality(peers) > 1

\* len(sb.broadcaster.FindPeers(nil, p2p.AnyPurpose)) > 0
FoundFirstPeer(peers) == Cardinality(peers) > 0

\* numGossipedMsgsInHighFreqAfterFirstPeerState >= 10
HighFreqMsgsGossiped(num) == num >= NumHighFreqMsgsAfterFirstPeer

\* The switch on announceGossipFrequencyState of case <-announceGossipTickerCh.
FrequencySwitch(l) ==
    LET state == l.announceGossipFrequencyState
        num == l.numGossipedMsgsInHighFreqAfterFirstPeerState
    IN  IF state = HighFreqBeforeFirstPeerState
        THEN IF FoundFirstPeer(l.peers)
             THEN [l EXCEPT !.announceGossipFrequencyState = HighFreqAfterFirstPeerState]
             ELSE l
        ELSE IF state = HighFreqAfterFirstPeerState
        THEN [l EXCEPT !.announceGossipFrequencyState =
                            IF HighFreqMsgsGossiped(num) THEN LowFreqState ELSE @,
                       !.numGossipedMsgsInHighFreqAfterFirstPeerState = num + 1]
        ELSE IF l.currentAnnounceGossipTickerDuration # LowFreqTickerDuration
        THEN [l EXCEPT !.currentAnnounceGossipTickerDuration = LowFreqTickerDuration,
                       !.announceGossipTicker = NewTicker(LowFreqTickerDuration),
                       !.announceGossipTickerCh = TickerCh]
        ELSE l

\* case <-announceGossipTickerCh: the switch, then go sb.gossipAnnounce().
OnGossipTick(l) ==
    LET switched == FrequencySwitch(l)
    IN  [switched EXCEPT
            !.did = Did("gossipTick", l,
                        <<switched.announceGossipFrequencyState>>, 0, EmptyMap)]

\* case <-announceVersionsCheckTicker.C.
OnVersionsCheckTick(l) ==
    [l EXCEPT !.did = Did("versionsCheckTick", l,
                          <<>>, 1, CheckPeersSends(l.peers))]

\* A quit case that stops the version-check ticker only.
OnQuitLeavingGossipTicker(l) ==
    [l EXCEPT !.announceVersionsCheckTicker = StopTicker(@),
              !.pc = "exited",
              !.announceThreadWg = 0,
              !.did = Did("quit", l, <<>>, 0, EmptyMap)]

\* case <-sb.announceThreadQuit, the return and the deferred Done.
OnQuit(l) ==
    [l EXCEPT !.announceVersionsCheckTicker = StopTicker(@),
              !.announceGossipTicker = IF @ # NilTicker THEN StopTicker(@) ELSE @,
              !.pc = "exited",
              !.announceThreadWg = 0,
              !.did = Did("quit", l, <<>>, 0, EmptyMap)]

\* The goroutines an iteration started are in flight.
Started(l) == [l EXCEPT !.tasks = @ + Len(l.did.emissions) + l.did.checks]

(***************************************************************************)
(* The state of the node and of its environment.                            *)
(***************************************************************************)
VARIABLES
    cachedAnnounceMsgs,    \* sb.cachedAnnounceMsgs: address -> announceMsgCachedEntry
    lastAnnounceGossiped,  \* sb.lastAnnounceGossiped: address -> AnnounceGossipTimestamp
    valEnodeTable,         \* sb.valEnodeTable: address -> {Node, Timestamp}
    coreStarted,           \* sb.coreStarted
    validators,            \* what retrieveActiveAndRegisteredValidators returns now
    now,                   \* the clock, in seconds
    generated,             \* announces of gossipAnnounce goroutines not yet cached
    last,                  \* what this node's last step was and how it ended
    maxAdmitted,           \* history: the largest timestamp admitted per address
    regossipTimes,         \* history: per address and hash pair, when it was regossiped
    peer,                  \* a connected peer running the same code: its state
    net,                   \* messages in flight between this node and the peer
    loop,                  \* announceThread: its locals, the quit signal, the peers found
    config,                \* sb.config.Proxied and sb.proxyNode
    accesses,              \* goroutines at the cache map: who waits, reads or writes
    lockers                \* where each handler goroutine is with the two locks

node == <<cachedAnnounceMsgs, lastAnnounceGossiped, valEnodeTable, coreStarted,
          validators, now, generated, last>>
vars == <<node, maxAdmitted, regossipTimes, peer, net, loop, config, accesses, lockers>>

NoTimestamp == 0 - 1

\* sb.retrieveActiveAndRegisteredValidators.
RetrieveActiveAndRegisteredValidators == validators

Outcome(op, err, admitted, multicast, pruned) ==
    [op |-> op, err |-> err, admitted |-> admitted, multicast |-> multicast,
     pruned |-> pruned]

Max(a, b) == IF a >= b THEN a ELSE b

\* The hash pair of a throttle entry.
HashPair(entry) == <<entry.enodeURLHash, entry.destAddressesHash>>

\* The entry of map m under key k is written by this step.
Written(m, mNext, k) ==
    k \in DOMAIN mNext /\ (k \notin DOMAIN m \/ mNext[k] # m[k])

\* The peer's address.
PeerAddress == 2

\* A node whose maps are empty.
FreshNode(started) ==
    [cache |-> EmptyMap, throttle |-> EmptyMap, table |-> EmptyMap, started |-> started]

\* Where each handler is with sb.cachedAnnounceMsgs: "idle", "waiting" for
\* cachedAnnounceMsgsMu, "reading" the map or "writing" it; and how many
\* gossipAnnounce goroutines are at their write of the map.  At first no
\* goroutine is at the map.
NoAccesses ==
    [handleAnnounceMsg |-> "idle",
     handleGetAnnouncesMsg |-> "idle",
     handleGetAnnounceVersionsMsg |-> "idle",
     handleAnnounceVersionsMsg |-> "idle",
     gossipAnnounce |-> 0]

\* The goroutines that take the locks: two peers' handleAnnounceMsg, a
\* handleGetAnnouncesMsg and a handleGetAnnounceVersionsMsg.
AnnounceHandlers == {"handleAnnounceMsg.1", "handleAnnounceMsg.2"}
CacheReaders == {"handleGetAnnouncesMsg", "handleGetAnnounceVersionsMsg"}
LockTasks == AnnounceHandlers \cup CacheReaders

\* No goroutine is in a handler.
NoLockers == [t \in LockTasks |-> "idle"]

\* After construction the maps are empty.
InitMaps ==
    /\ cachedAnnounceMsgs = EmptyMap
    /\ lastAnnounceGossiped = EmptyMap
    /\ valEnodeTable = EmptyMap
    /\ now = 0
    /\ generated = {}
    /\ last = Outcome("init", ErrNil, FALSE, FALSE, FALSE)
    /\ maxAdmitted = [a \in Addresses |-> NoTimestamp]
    /\ regossipTimes = [a \in Addresses |-> EmptyMap]
    /\ loop = LoopStart
    /\ accesses = NoAccesses
    /\ lockers = NoLockers

Init ==
    /\ InitMaps
    /\ validators \in SUBSET Addresses
    /\ coreStarted = FALSE
    /\ peer = FreshNode(FALSE)
    /\ net = {}
    /\ config = Config(FALSE, FALSE)

(***************************************************************************)
(* The environment: the clock, the chain, the consensus core.               *)
(***************************************************************************)
Tick ==
    /\ now < MaxNow
    /\ now' = now + TickSeconds
    /\ last' = Outcome("tick", ErrNil, FALSE, FALSE, FALSE)
    /\ UNCHANGED <<cachedAnnounceMsgs, lastAnnounceGossiped, valEnodeTable, coreStarted,
                   validators, generated>>

\* A validator registers, is elected, or leaves.
ValidatorSetChange ==
    /\ \E a \in Addresses :
          validators' = IF a \in validators THEN validators \ {a} ELSE validators \cup {a}
    /\ last' = Outcome("validatorSetChange", ErrNil, FALSE, FALSE, FALSE)
    /\ UNCHANGED <<cachedAnnounceMsgs, lastAnnounceGossiped, valEnodeTable, coreStarted,
                   now, generated>>

\* sb.StartValidating and sb.StopValidating.
StartStopValidating ==
    /\ coreStarted' = ~coreStarted
    /\ last' = Outcome("startStop", ErrNil, FALSE, FALSE, FALSE)
    /\ UNCHANGED <<cachedAnnounceMsgs, lastAnnounceGossiped, valEnodeTable, validators,
                   now, generated>>

(***************************************************************************)
(* handleAnnounceMsg: a peer delivers an announce payload.                  *)
(***************************************************************************)
\* What handleAnnounceMsg returns and leaves behind in the current state.
HandlerResult(payload, draw) ==
    HandleAnnounceMsg(cachedAnnounceMsgs, lastAnnounceGossiped, valEnodeTable,
                      payload, RetrieveActiveAndRegisteredValidators, Self,
                      coreStarted, now, draw)

HandleAnnounce(payload, draw) ==
    LET r == HandlerResult(payload, draw)
    IN  /\ cachedAnnounceMsgs' = r.cache
        /\ lastAnnounceGossiped' = r.throttle
        /\ valEnodeTable' = r.table
        /\ last' = Outcome("handleAnnounceMsg", r.err, r.admitted, r.multicast, r.pruned)
        /\ UNCHANGED <<coreStarted, validators, now, generated>>

(***************************************************************************)
(* gossipAnnounce: the announce thread starts a goroutine, which generates  *)
(* this node's announce and later caches and multicasts it.                 *)
(***************************************************************************)
GossipAnnounceGenerate ==
    /\ coreStarted
    /\ IF NoProxyConnection(config)
       THEN /\ generated' = generated
            /\ last' = Outcome("gossipAnnounce", ErrNoProxyConnection, FALSE, FALSE, FALSE)
       ELSE /\ Cardinality(generated) < MaxInFlight
            /\ \E order \in RangeOrders(RetrieveActiveAndRegisteredValidators) :
                  generated' = generated \cup
                      {GenerateAnnounce(Self, OwnEnodeURL(config), order, now)}
            /\ last' = Outcome("generateAnnounce", ErrNil, FALSE, FALSE, FALSE)
    /\ UNCHANGED <<cachedAnnounceMsgs, lastAnnounceGossiped, valEnodeTable, coreStarted,
                   validators, now>>

GossipAnnounceStore ==
    \E payload \in generated :
        /\ generated' = generated \ {payload}
        /\ cachedAnnounceMsgs' = CacheOwnAnnounce(cachedAnnounceMsgs, payload)
        /\ last' = Outcome("gossipAnnounce", ErrNil, TRUE,
                           MulticastsOwnAnnounce(RetrieveActiveAndRegisteredValidators, Self),
                           FALSE)
        /\ UNCHANGED <<lastAnnounceGossiped, valEnodeTable, coreStarted, validators, now>>

(***************************************************************************)
(* History.                                                                 *)
(***************************************************************************)
\* Every cache write of the step is an admission, of its timestamp.
RecordAdmissions ==
    maxAdmitted' =
        [a \in Addresses |->
            IF Written(cachedAnnounceMsgs, cachedAnnounceMsgs', a)
            THEN Max(maxAdmitted[a], cachedAnnounceMsgs'[a].MsgTimestamp)
            ELSE maxAdmitted[a]]

\* regossipAnnounce writes the throttle entry of an address exactly when it
\* has multicast that address's announce.
Regossiped(a) == Written(lastAnnounceGossiped, lastAnnounceGossiped', a)

\* When address a was regossiped with the hash pair, so far.
RegossipsOf(a, pair) ==
    IF pair \in DOMAIN regossipTimes[a] THEN regossipTimes[a][pair] ELSE {}

RecordRegossips ==
    regossipTimes' =
        [a \in Addresses |->
            IF Regossiped(a)
            THEN LET pair == HashPair(lastAnnounceGossiped'[a])
                 IN  Put(regossipTimes[a], pair, RegossipsOf(a, pair) \cup {now})
            ELSE regossipTimes[a]]

(***************************************************************************)
(* Spec: the handler under a changing validator set and a core that starts  *)
(* and stops.                                                               *)
(***************************************************************************)
\* The announces validator 2 may have signed: a recipient list and an
\* endpoint.  A list this node accepts, a duplicated recipient, and bytes
\* for this node that do not parse.
AnnounceShapes ==
    {[dests |-> <<1, 2>>, url |-> 1],
     [dests |-> <<2, 2>>, url |-> 1],
     [dests |-> <<1>>, url |-> GarbageURL]}

\* What peers deliver: announces signed by validator 2 (every shape and
\* timestamp), an announce signed by validator 3, one of its whose inner
\* ValAddress is not its signer, announces whose declared Address is not
\* the signer, and bytes whose Msg does not decode.
PeerPayloads ==
    {Announce(2, sh.dests, sh.url, t) : sh \in AnnounceShapes, t \in Timestamps}
    \cup {Announce(3, <<1, 2>>, 1, 1)}
    \cup {AnnouncePayload(3, 3, 2, <<1, 2>>, 1, 1, TRUE)}
    \cup {AnnouncePayload(a, 3, a, <<1, 2>>, 1, 1, TRUE) : a \in {1, 2}}
    \cup {AnnouncePayload(2, 2, 2, <<1, 2>>, 1, 1, FALSE)}

\* A step of a specification that keeps no history.
\* What only the specifications of the announce thread and of the cache lock
\* change.
Elsewhere == UNCHANGED <<loop, accesses, lockers>>

Unrecorded == UNCHANGED <<maxAdmitted, regossipTimes, peer, net, config>> /\ Elsewhere

Next ==
    \/ ValidatorSetChange /\ Unrecorded
    \/ StartStopValidating /\ Unrecorded
    \/ /\ \E payload \in PeerPayloads, draw \in RandDraws : HandleAnnounce(payload, draw)
       /\ Unrecorded

Spec == Init /\ [][Next]_vars

(***************************************************************************)
(* Claims about the handler, checked under Spec.                            *)
(***************************************************************************)
AfterHandler == last.op = "handleAnnounceMsg"

\* C4: prune completeness.  Immediately after handleAnnounceMsg has admitted
\* an announce under validator set V, every key of the announce cache is in
\* V; immediately after the gated prune of regossipAnnounce has run with V,
\* every key of the throttle table is in V.
C4_PruneCompleteness ==
    /\ (AfterHandler /\ last.admitted) => DOMAIN cachedAnnounceMsgs \subseteq validators
    /\ (AfterHandler /\ last.pruned) => DOMAIN lastAnnounceGossiped \subseteq validators

\* C4, witness: an admission has just completed, and a validator that was
\* regossiped earlier and has left the set is gone from the cache.
C4_Witness ==
    /\ AfterHandler /\ last.admitted
    /\ \E d \in DOMAIN lastAnnounceGossiped :
          d \notin validators /\ d \notin DOMAIN cachedAnnounceMsgs

\* C5, as claimed: in every reachable state the throttle holds an entry for
\* A only if the cache holds an entry for A.
C5_ThrottleOnlyIfCached ==
    DOMAIN lastAnnounceGossiped \subseteq DOMAIN cachedAnnounceMsgs

\* C5, amended: a throttle entry for A is written only by a step that leaves
\* an entry for A in the cache.  (The entry can outlive A's cache entry: the
\* cache is pruned on every admission, the throttle only when the gate fires.)
C5_ThrottleWrittenOnlyIfCached ==
    [][\A a \in Addresses : Regossiped(a) => a \in DOMAIN cachedAnnounceMsgs']_vars

\* C5, witness: a regossip has just been recorded for a cached validator,
\* while the throttle still holds a validator the cache has lost.
C5_Witness ==
    /\ AfterHandler /\ last.multicast
    /\ \E a \in DOMAIN lastAnnounceGossiped : a \in DOMAIN cachedAnnounceMsgs
    /\ \E d \in DOMAIN lastAnnounceGossiped : d \notin DOMAIN cachedAnnounceMsgs

\* C7: stale drop.  For every announce a peer can deliver that is validly
\* signed by a validator A of the current set, decodes, and carries a
\* timestamp less than or equal to the one cached for A, handleAnnounceMsg
\* returns errOldAnnounceMessage, leaves the cache, the throttle table and
\* the validator-endpoint table as they are, and multicasts nothing.
C7_StaleDrop ==
    \A payload \in PeerPayloads, draw \in RandDraws :
        LET r == HandlerResult(payload, draw)
            a == payload.Address
        IN  ( /\ payload.Signature = a
              /\ a \in validators
              /\ payload.MsgDecodes
              /\ a \in DOMAIN cachedAnnounceMsgs
              /\ payload.Msg.Timestamp <= cachedAnnounceMsgs[a].MsgTimestamp )
            => /\ r.err = ErrOldAnnounceMessage
               /\ r.cache = cachedAnnounceMsgs
               /\ r.throttle = lastAnnounceGossiped
               /\ r.table = valEnodeTable
               /\ ~r.multicast

\* C7, witness: the handler has just returned errOldAnnounceMessage.
C7_Witness ==
    /\ AfterHandler /\ last.err = ErrOldAnnounceMessage
    /\ cachedAnnounceMsgs # EmptyMap

\* The self-targeted entry of the payload that the scan reaches first does
\* not parse.
SelfEntryUnparsable(payload) ==
    LET enodes == payload.Msg.EncryptedEnodes
    IN  \E i \in DOMAIN enodes :
            /\ enodes[i].DecrypterAddress = Self
            /\ ParseV4(enodes[i].EncryptedEnodeURL) = NoNode
            /\ \A j \in 1..(i - 1) : enodes[j].DecrypterAddress # Self

\* C8: a message whose signature does not recover to its declared Address,
\* whose signer is not in the validator set, whose Msg does not decode, or
\* (at a started validator, for a fresh announce) whose self-targeted entry
\* does not parse, is rejected with an error; every such rejection writes
\* nothing to the cache and the throttle and multicasts nothing; and every
\* payload the handler admits has its signer in the validator set.
C8_RejectedNotCachedNotRegossiped ==
    \A payload \in PeerPayloads, draw \in RandDraws :
        LET r == HandlerResult(payload, draw)
            a == payload.Address
            unauthorized == payload.Signature = a /\ a \notin validators
            undecodable == payload.Signature # a \/ ~payload.MsgDecodes
            unparsable == /\ payload.Signature = a /\ a \in validators
                          /\ payload.MsgDecodes
                          /\ ~IsOldAnnounce(cachedAnnounceMsgs, a, payload.Msg.Timestamp)
                          /\ coreStarted /\ Self \in validators
                          /\ SelfEntryUnparsable(payload)
        IN  /\ unauthorized => r.err = ErrUnauthorizedAnnounceMessage
            /\ undecodable => r.err \in {ErrInvalidSigner, ErrDecode,
                                         ErrUnauthorizedAnnounceMessage}
            /\ unparsable => r.err = ErrParseV4
            /\ r.err \in {ErrUnauthorizedAnnounceMessage, ErrInvalidSigner,
                          ErrDecode, ErrParseV4}
               => /\ r.cache = cachedAnnounceMsgs
                  /\ r.throttle = lastAnnounceGossiped
                  /\ ~r.multicast /\ ~r.admitted
            /\ r.admitted => payload.Signature = a /\ a \in validators

\* C8, witness: the handler has just returned errUnauthorizedAnnounceMessage
\* at a node whose cache and throttle are not empty.
C8_Witness ==
    /\ AfterHandler /\ last.err = ErrUnauthorizedAnnounceMessage
    /\ cachedAnnounceMsgs # EmptyMap /\ lastAnnounceGossiped # EmptyMap

\* C6: in every reachable state the payload stored in the cache under
\* address A carries a signature that recovers to A; and a payload whose
\* recovered signer is not its declared Address is rejected by the handler
\* with the cache left as it is.
C6_CachedPayloadAuthoredByKey ==
    /\ \A a \in DOMAIN cachedAnnounceMsgs :
          cachedAnnounceMsgs[a].MsgPayload.Signature = a
    /\ \A payload \in PeerPayloads, draw \in RandDraws :
          LET r == HandlerResult(payload, draw)
          IN  payload.Signature # payload.Address
              => /\ r.err = ErrInvalidSigner
                 /\ ~r.admitted
                 /\ r.cache = cachedAnnounceMsgs

\* C6, witness: the cache holds, under its signer, a payload whose inner
\* ValAddress names another validator, and the handler has just rejected a
\* payload whose signer is not its declared Address.
C6_Witness ==
    /\ AfterHandler /\ last.err = ErrInvalidSigner
    /\ \E a \in DOMAIN cachedAnnounceMsgs :
          cachedAnnounceMsgs[a].MsgPayload.Msg.ValAddress # a

(***************************************************************************)
(* AdmissionSpec: the handler with every admission recorded.                *)
(***************************************************************************)
\* What peers deliver here: announces signed by validator 2, at every
\* timestamp, and one signed by validator 3.
AdmissionPayloads ==
    {Announce(2, <<1, 2>>, 1, t) : t \in Timestamps}
    \cup {Announce(3, <<1, 2>>, 1, 1)}

Recorded == RecordAdmissions /\ UNCHANGED <<regossipTimes, peer, net, config>> /\ Elsewhere

AdmissionNext ==
    \/ ValidatorSetChange /\ Recorded
    \/ StartStopValidating /\ Recorded
    \/ /\ \E payload \in AdmissionPayloads, draw \in RandDraws :
             HandleAnnounce(payload, draw)
       /\ Recorded

AdmissionSpec == Init /\ [][AdmissionNext]_vars

\* C2, as claimed: in every reachable state, for every address A in the
\* cache, the stored MsgTimestamp is the largest timestamp ever admitted for
\* A, also when A was pruned after leaving the validator set and admitted
\* again.
C2_StoredIsLargestAdmitted ==
    \A a \in DOMAIN cachedAnnounceMsgs :
        cachedAnnounceMsgs[a].MsgTimestamp = maxAdmitted[a]

(***************************************************************************)
(* GossipSpec: gossipAnnounce goroutines, started while the core runs, as   *)
(* the clock advances, under any one validator set; every admission is      *)
(* recorded.                                                                *)
(***************************************************************************)
GossipNext ==
    \/ Tick /\ Recorded
    \/ StartStopValidating /\ Recorded
    \/ GossipAnnounceGenerate /\ Recorded
    \/ GossipAnnounceStore /\ Recorded

GossipSpec == Init /\ [][GossipNext]_vars

\* C1, as claimed: the timestamp cached for A never decreases from one
\* admission to the next: every step that writes A's cache entry writes a
\* timestamp at least as large as every timestamp admitted for A before.
C1_Monotonicity ==
    [][\A a \in Addresses :
          Written(cachedAnnounceMsgs, cachedAnnounceMsgs', a)
          => cachedAnnounceMsgs'[a].MsgTimestamp >= maxAdmitted[a]]_vars

\* C3, as claimed: every entry inserted into the cache is keyed by an
\* address that is in the registered-or-active validator set at the moment
\* of insertion.
C3_InsertedKeyInValidatorSet ==
    [][\A a \in Addresses :
          Written(cachedAnnounceMsgs, cachedAnnounceMsgs', a)
          => a \in RetrieveActiveAndRegisteredValidators]_vars

(***************************************************************************)
(* ThrottleSpec: the handler at a node whose core is stopped, as the clock   *)
(* advances and the validator set changes; every regossip is recorded.      *)
(***************************************************************************)
\* What peers deliver here: announces signed by validator 2, for either
\* endpoint and at every timestamp, and one signed by validator 3.
ThrottlePayloads ==
    {Announce(2, <<1, 2>>, url, t) : url \in GoodURLs, t \in Timestamps}
    \cup {Announce(3, <<1, 2>>, 1, 1)}

RegossipsRecorded ==
    RecordRegossips /\ UNCHANGED <<maxAdmitted, peer, net, config>> /\ Elsewhere

ThrottleNext ==
    \/ Tick /\ RegossipsRecorded
    \/ ValidatorSetChange /\ RegossipsRecorded
    \/ /\ \E payload \in ThrottlePayloads, draw \in RandDraws :
             HandleAnnounce(payload, draw)
       /\ RegossipsRecorded

ThrottleSpec == Init /\ [][ThrottleNext]_vars

\* The hash pair this step regossips address a with.
RegossipedPair(a) == HashPair(lastAnnounceGossiped'[a])

\* C9, as claimed: between two regossips of announces of the same validator
\* A with identical (enodeURLHash, destAddressesHash), at least 60 seconds
\* elapse, over any execution.
C9_ThrottleSoundness ==
    [][\A a \in Addresses :
          Regossiped(a)
          => \A t \in RegossipsOf(a, RegossipedPair(a)) : now - t >= Minute]_vars

\* C9, amended: when the throttle still holds, for A, the hash pair that A's
\* announce is regossiped with (no announce of A with another hash pair was
\* regossiped since, and no prune removed A's throttle entry), at least 60
\* seconds have elapsed since every earlier regossip of A with that pair.
C9_ConsecutiveRegossipsThrottled ==
    [][\A a \in Addresses :
          ( /\ Regossiped(a)
            /\ a \in DOMAIN lastAnnounceGossiped
            /\ HashPair(lastAnnounceGossiped[a]) = RegossipedPair(a) )
          => \A t \in RegossipsOf(a, RegossipedPair(a)) : now - t >= Minute]_vars

\* C9, witness: an announce of A has just been regossiped, a minute or more
\* after an earlier regossip of A, and A was only ever regossiped with one
\* hash pair.
C9_Witness ==
    /\ AfterHandler /\ last.multicast
    /\ \E a \in DOMAIN lastAnnounceGossiped :
          /\ lastAnnounceGossiped[a].timestamp = now
          /\ DOMAIN regossipTimes[a] = {HashPair(lastAnnounceGossiped[a])}
          /\ \E t \in RegossipsOf(a, HashPair(lastAnnounceGossiped[a])) :
                now - t >= Minute

(***************************************************************************)
(* SyncSpec: this node and a connected peer, under one validator set that   *)
(* does not change, reconcile their caches.  Announces gossiped by other    *)
(* peers are in flight to either node at the start; either node can check   *)
(* its peer's versions at any time.                                         *)
(***************************************************************************)
Nodes == {Self, PeerAddress}
Other(n) == IF n = Self THEN PeerAddress ELSE Self

IstanbulAnnounceMsg == "istanbulAnnounceMsg"
IstanbulGetAnnouncesMsg == "istanbulGetAnnouncesMsg"
IstanbulGetAnnounceVersionsMsg == "istanbulGetAnnounceVersionsMsg"
IstanbulAnnounceVersionsMsg == "istanbulAnnounceVersionsMsg"

\* peer.Send(code, body), on its way to node `to`.
Message(to, code, body) == [to |-> to, code |-> code, body |-> body]

\* The state of node n.
NodeState(n) ==
    IF n = Self
    THEN [cache |-> cachedAnnounceMsgs, throttle |-> lastAnnounceGossiped,
          table |-> valEnodeTable, started |-> coreStarted]
    ELSE peer

\* Node n's maps become those of st; the other node keeps its own.
NodeBecomes(n, st) ==
    IF n = Self
    THEN /\ cachedAnnounceMsgs' = st.cache
         /\ lastAnnounceGossiped' = st.throttle
         /\ valEnodeTable' = st.table
         /\ UNCHANGED peer
    ELSE /\ peer' = st
         /\ UNCHANGED <<cachedAnnounceMsgs, lastAnnounceGossiped, valEnodeTable>>

NodesKept == UNCHANGED <<cachedAnnounceMsgs, lastAnnounceGossiped, valEnodeTable, peer>>

\* What no step of the reconciliation changes.
SyncFrame ==
    UNCHANGED <<coreStarted, validators, now, generated, last, maxAdmitted, regossipTimes,
                loop, config, accesses, lockers>>

\* The announces validator 3 has signed: generated in the same second for
\* the two nodes, its map range visiting them in either order.
SyncPayloads == {Announce(3, order, 1, 1) : order \in RangeOrders(Nodes)}

SyncInit ==
    /\ InitMaps
    /\ validators \in SUBSET Addresses
    /\ coreStarted \in BOOLEAN
    /\ peer \in {FreshNode(started) : started \in BOOLEAN}
    /\ net \in SUBSET {Message(n, IstanbulAnnounceMsg, payload) :
                          n \in Nodes, payload \in SyncPayloads}
    /\ config = Config(FALSE, FALSE)

\* checkPeersAnnounceVersions and sendGetAnnounceVersions at node n.
CheckPeersAnnounceVersions(n) ==
    /\ Message(Other(n), IstanbulGetAnnounceVersionsMsg, <<>>) \notin net
    /\ net' = net \cup {Message(Other(n), IstanbulGetAnnounceVersionsMsg, <<>>)}
    /\ NodesKept /\ SyncFrame

HandleGetAnnounceVersions(n) ==
    \E m \in net :
        /\ m.to = n /\ m.code = IstanbulGetAnnounceVersionsMsg
        /\ net' = (net \ {m}) \cup {Message(Other(n), IstanbulAnnounceVersionsMsg,
                                             AnnounceVersions(NodeState(n).cache))}
        /\ NodesKept /\ SyncFrame

HandleAnnounceVersions(n) ==
    \E m \in net :
        /\ m.to = n /\ m.code = IstanbulAnnounceVersionsMsg
        /\ LET announcesToRequest ==
                   AnnouncesToRequest(NodeState(n).cache, m.body,
                                      RetrieveActiveAndRegisteredValidators)
           IN  net' = (net \ {m}) \cup
                      (IF announcesToRequest # {}
                       THEN {Message(Other(n), IstanbulGetAnnouncesMsg, announcesToRequest)}
                       ELSE {})
        /\ NodesKept /\ SyncFrame

HandleGetAnnounces(n) ==
    \E m \in net :
        /\ m.to = n /\ m.code = IstanbulGetAnnouncesMsg
        /\ net' = (net \ {m}) \cup
                   {Message(Other(n), IstanbulAnnounceMsg, payload) :
                        payload \in CachedAnnounces(NodeState(n).cache, m.body)}
        /\ NodesKept /\ SyncFrame

\* handleAnnounceMsg at node n; what regossipAnnounce multicasts goes to the
\* other node.
HandleAnnounceFromNet(n) ==
    \E m \in net, draw \in RandDraws :
        /\ m.to = n /\ m.code = IstanbulAnnounceMsg
        /\ LET st == NodeState(n)
               r == HandleAnnounceMsg(st.cache, st.throttle, st.table, m.body,
                                      RetrieveActiveAndRegisteredValidators, n,
                                      st.started, now, draw)
           IN  /\ NodeBecomes(n, [cache |-> r.cache, throttle |-> r.throttle,
                                   table |-> r.table, started |-> st.started])
               /\ net' = (net \ {m}) \cup
                          (IF r.multicast
                           THEN {Message(Other(n), IstanbulAnnounceMsg, m.body)}
                           ELSE {})
        /\ SyncFrame

SyncNext ==
    \/ \E n \in Nodes : CheckPeersAnnounceVersions(n)
    \/ \E n \in Nodes : HandleGetAnnounceVersions(n)
    \/ \E n \in Nodes : HandleAnnounceVersions(n)
    \/ \E n \in Nodes : HandleGetAnnounces(n)
    \/ \E n \in Nodes : HandleAnnounceFromNet(n)

SyncSpec == SyncInit /\ [][SyncNext]_vars

\* The two caches hold the same entry, or both none, for address a.
CachesAgreeOn(a) ==
    /\ a \in DOMAIN cachedAnnounceMsgs <=> a \in DOMAIN peer.cache
    /\ a \in DOMAIN cachedAnnounceMsgs => cachedAnnounceMsgs[a] = peer.cache[a]

\* Nothing is in flight and neither node would request an announce on
\* seeing the other's versions: every further reconciliation round sends
\* GetAnnounceVersions, receives AnnounceVersions, requests nothing and
\* leaves both caches as they are.
NothingToReconcile ==
    /\ net = {}
    /\ \A n \in Nodes :
          AnnouncesToRequest(NodeState(n).cache, AnnounceVersions(NodeState(Other(n)).cache),
                             RetrieveActiveAndRegisteredValidators) = {}

\* C10, as claimed: two connected nodes that share a validator set reach,
\* after finitely many reconciliation rounds, caches that agree on timestamp
\* and payload for every validator of the set: when no further round can
\* change either cache, the caches agree.
C10_Convergence ==
    NothingToReconcile
    => \A a \in RetrieveActiveAndRegisteredValidators : CachesAgreeOn(a)

(***************************************************************************)
(* The announce thread: one action per case of its select.  The goroutines  *)
(* it starts are counted in loop.tasks and finish on their own.             *)
(***************************************************************************)
LoopFrame ==
    UNCHANGED <<cachedAnnounceMsgs, lastAnnounceGossiped, valEnodeTable, validators, now,
                generated, last, maxAdmitted, regossipTimes, peer, net, config, accesses,
                lockers>>

\* The loop takes a case only while it runs, and the model lets it start
\* goroutines only while at most MaxInFlight of them are unfinished.
LoopStep(l) ==
    /\ loop.pc = "running"
    /\ Started(l).tasks <= MaxInFlight
    /\ loop' = Started(l)

HandleCoreStartStop(coreRunning) ==
    /\ LoopStep(OnCoreStartStop(loop, coreRunning))
    /\ coreStarted' = coreRunning
    /\ LoopFrame

HandleNewEpoch ==
    /\ LoopStep(OnNewEpoch(loop, coreStarted))
    /\ UNCHANGED coreStarted
    /\ LoopFrame

\* A nil channel never delivers; a stopped ticker sends no tick.
HandleGossipTick ==
    /\ loop.announceGossipTickerCh # NilCh
    /\ ~loop.announceGossipTicker.stopped
    /\ LoopStep(OnGossipTick(loop))
    /\ UNCHANGED coreStarted
    /\ LoopFrame

HandleVersionsCheckTick ==
    /\ ~loop.announceVersionsCheckTicker.stopped
    /\ LoopStep(OnVersionsCheckTick(loop))
    /\ UNCHANGED coreStarted
    /\ LoopFrame

HandleQuit ==
    /\ loop.quit
    /\ LoopStep(OnQuit(loop))
    /\ UNCHANGED coreStarted
    /\ LoopFrame

\* A value becomes available on sb.announceThreadQuit.
RequestQuit ==
    /\ ~loop.quit
    /\ loop' = [loop EXCEPT !.quit = TRUE]
    /\ UNCHANGED coreStarted
    /\ LoopFrame

\* Peers connect and disconnect.
PeerChange ==
    /\ \E peers \in SUBSET Peers :
          /\ peers # loop.peers
          /\ loop' = [loop EXCEPT !.peers = peers]
    /\ UNCHANGED coreStarted
    /\ LoopFrame

\* A gossipAnnounce or checkPeersAnnounceVersions goroutine finishes.
TaskCompletes ==
    /\ loop.tasks > 0
    /\ loop' = [loop EXCEPT !.tasks = @ - 1]
    /\ UNCHANGED coreStarted
    /\ LoopFrame

LoopInit ==
    /\ InitMaps
    /\ validators = Addresses
    /\ coreStarted = FALSE
    /\ peer = FreshNode(FALSE)
    /\ net = {}
    /\ config = Config(FALSE, FALSE)

\* sb.StartValidating and sb.StopValidating alternate: the signal received is
\* the opposite of the core's state.
LoopNext ==
    \/ HandleCoreStartStop(~coreStarted)
    \/ HandleNewEpoch
    \/ HandleGossipTick
    \/ HandleVersionsCheckTick
    \/ HandleQuit
    \/ RequestQuit
    \/ PeerChange
    \/ TaskCompletes

\* The select picks among its ready cases at random, so a quit signal that
\* stays available is taken; a started goroutine runs to its end.
LoopSpec ==
    LoopInit /\ [][LoopNext]_vars /\ WF_vars(HandleQuit) /\ WF_vars(TaskCompletes)

\* Any value may arrive on sb.coreStartStopCh, in any order.
LoopSignalNext ==
    \/ \E coreRunning \in BOOLEAN : HandleCoreStartStop(coreRunning)
    \/ HandleNewEpoch
    \/ HandleGossipTick
    \/ HandleVersionsCheckTick
    \/ HandleQuit
    \/ RequestQuit
    \/ PeerChange
    \/ TaskCompletes

LoopSignalSpec == LoopInit /\ [][LoopSignalNext]_vars

\* The last iteration of the loop was a gossip tick.
AtGossipTick == loop.did.event = "gossipTick"

\* C11: at a gossip tick taken in HighFreqBeforeFirstPeerState the loop is in
\* HighFreqAfterFirstPeerState afterwards exactly if at least one peer was
\* connected, it stays in HighFreqBeforeFirstPeerState with no peer, and in
\* both cases it starts exactly one gossipAnnounce, after the switch: the
\* emission sees the state the switch left.
C11_FirstPeerFastPath ==
    (AtGossipTick /\ loop.did.observed = HighFreqBeforeFirstPeerState) =>
        /\ (loop.announceGossipFrequencyState = HighFreqAfterFirstPeerState)
               <=> (loop.did.peers # {})
        /\ (loop.did.peers = {}) =>
               (loop.announceGossipFrequencyState = HighFreqBeforeFirstPeerState)
        /\ loop.did.emissions = <<loop.announceGossipFrequencyState>>

C11_Witness ==
    /\ AtGossipTick
    /\ loop.did.observed = HighFreqBeforeFirstPeerState
    /\ loop.did.peers # {}
    /\ loop.announceGossipFrequencyState = HighFreqAfterFirstPeerState

\* A step of the loop that handles a gossip tick while it is in
\* HighFreqAfterFirstPeerState with n ticks already counted there.
GossipTickAfterCounted(n) ==
    /\ loop.announceGossipFrequencyState = HighFreqAfterFirstPeerState
    /\ loop.numGossipedMsgsInHighFreqAfterFirstPeerState = n
    /\ loop'.did.event = "gossipTick"
    /\ loop'.numGossipedMsgsInHighFreqAfterFirstPeerState = n + 1

\* C12: once 10 gossip ticks have been handled in HighFreqAfterFirstPeerState
\* (counter from 0 to 10), the next gossip tick observes LowFreqState and
\* leaves the gossip ticker at the 600 second period.
C12_TenTickDecay ==
    [][GossipTickAfterCounted(NumHighFreqMsgsAfterFirstPeer) =>
          /\ loop'.did.observed = LowFreqState
          /\ loop'.announceGossipTicker.period = LowFreqTickerDuration]_vars

\* The last iteration of the loop was a core-start signal.
AtCoreStart == loop.did.event = "coreStart"

\* C13: after any core-start signal the loop has started exactly one
\* gossipAnnounce, at once (before its assignments: the emission sees the
\* state the loop was in), is in HighFreqBeforeFirstPeerState with the
\* counter at 0, and its gossip ticker is a running 1-minute ticker whose
\* channel the select reads.
C13_CoreStartResets ==
    AtCoreStart =>
        /\ loop.did.emissions = <<loop.did.observed>>
        /\ loop.announceGossipFrequencyState = HighFreqBeforeFirstPeerState
        /\ loop.numGossipedMsgsInHighFreqAfterFirstPeerState = 0
        /\ loop.currentAnnounceGossipTickerDuration = HighFreqTickerDuration
        /\ loop.announceGossipTicker = NewTicker(1 * Minute)
        /\ loop.announceGossipTickerCh = TickerCh

\* A core-start signal found the loop in LowFreqState with the 10-minute
\* ticker and a counter above zero.
C13_Witness ==
    /\ AtCoreStart
    /\ loop.did.observed = LowFreqState
    /\ loop.did.duration = LowFreqTickerDuration
    /\ loop.did.counted > 0
    /\ loop.numGossipedMsgsInHighFreqAfterFirstPeerState = 0

\* The last iteration of the loop was a core-stop signal.
AtCoreStop == loop.did.event = "coreStop"

\* C14: after a core-stop signal, whatever the state it arrived in, the loop
\* still runs, its gossip ticker is stopped, and the select reads no gossip
\* tick channel (so no gossip tick is handled before the next core start).
C14_CoreStopKeepsRunning ==
    AtCoreStop =>
        /\ loop.pc = "running"
        /\ loop.announceGossipTicker # NilTicker
        /\ loop.announceGossipTicker.stopped
        /\ loop.announceGossipTickerCh = NilCh
        /\ ~ENABLED HandleGossipTick

\* The last iteration of the loop was a new-epoch signal.
AtNewEpoch == loop.did.event = "newEpoch"

\* The last iteration of the loop ran checkPeersAnnounceVersions.
AtVersionsCheck == loop.did.event \in {"newEpoch", "versionsCheckTick"}

\* C15: a new-epoch iteration starts one gossipAnnounce if the core is
\* started and none otherwise; a new-epoch iteration and a version-check tick
\* each run checkPeersAnnounceVersions once, which sends one
\* GetAnnounceVersions to each peer connected at that time and to nobody else.
C15_NewEpochAndVersionsCheck ==
    /\ AtNewEpoch => Len(loop.did.emissions) = (IF coreStarted THEN 1 ELSE 0)
    /\ AtVersionsCheck =>
          /\ loop.did.checks = 1
          /\ DOMAIN loop.did.sent = loop.did.peers
          /\ \A p \in loop.did.peers : loop.did.sent[p] = 1

\* A new epoch with the core started and two peers connected.
C15_Witness ==
    /\ AtNewEpoch
    /\ coreStarted
    /\ loop.did.peers = Peers
    /\ Len(loop.did.emissions) = 1
    /\ loop.did.sent = [p \in Peers |-> 1]

\* The loop has returned.
Exited == loop.pc = "exited"

\* What the loop itself owns: everything in loop but the quit signal, the
\* peers and the goroutines in flight.
LoopLocals ==
    <<loop.pc, loop.announceThreadWg, loop.announceVersionsCheckTicker,
      loop.announceGossipTicker, loop.announceGossipTickerCh,
      loop.announceGossipFrequencyState, loop.currentAnnounceGossipTickerDuration,
      loop.numGossipedMsgsInHighFreqAfterFirstPeerState, loop.did>>

\* C16: a quit signal that is available to the running loop leads to the
\* loop's exit; the loop holds its wait-group until then; at exit both
\* tickers are stopped (the gossip ticker if there is one) and the wait-group
\* is released; after the exit the loop handles nothing more; the goroutines
\* it had started still finish.
C16_Shutdown ==
    /\ (loop.quit /\ loop.pc = "running") ~> Exited
    /\ [](loop.pc = "running" => loop.announceThreadWg = 1)
    /\ [](Exited =>
            /\ loop.did.event = "quit"
            /\ loop.announceVersionsCheckTicker.stopped
            /\ loop.announceGossipTicker # NilTicker => loop.announceGossipTicker.stopped
            /\ loop.announceThreadWg = 0)
    /\ [][Exited => UNCHANGED LoopLocals]_vars
    /\ Exited ~> (Exited /\ loop.tasks = 0)

\* The loop has exited on the quit signal, with a gossip ticker to stop and
\* with a goroutine it started still in flight.
C16_Witness ==
    /\ Exited
    /\ loop.did.event = "quit"
    /\ loop.announceGossipTicker # NilTicker
    /\ loop.announceGossipTicker.stopped
    /\ loop.did.observed = LowFreqState
    /\ loop.tasks > 0

(***************************************************************************)
(* The two reply handlers of the version exchange, on every cache, every    *)
(* validator set and every request within the bounds.                       *)
(***************************************************************************)
\* The versions a cache or an AnnounceVersions message may hold.
VersionMaps == UNION {[S -> Timestamps] : S \in SUBSET Addresses}

\* A cache that holds, for each address of versions, the announce that
\* address signed at that version.
CacheAt(versions) ==
    [a \in DOMAIN versions |->
        [MsgTimestamp |-> versions[a],
         MsgPayload |-> Announce(a, <<Self, PeerAddress>>, SelfURL, versions[a])]]

\* The body of an AnnounceVersions message.
VersionRecords(versions) ==
    {[ValAddress |-> a, AnnounceMsgTimestamp |-> versions[a]] : a \in DOMAIN versions}

\* One request from the peer is waiting at this node.
ReplyInit ==
    /\ \E versions \in VersionMaps : cachedAnnounceMsgs = CacheAt(versions)
    /\ lastAnnounceGossiped = EmptyMap
    /\ valEnodeTable = EmptyMap
    /\ now = 0
    /\ generated = {}
    /\ last = Outcome("init", ErrNil, FALSE, FALSE, FALSE)
    /\ maxAdmitted = [a \in Addresses |-> NoTimestamp]
    /\ regossipTimes = [a \in Addresses |-> EmptyMap]
    /\ loop = LoopStart
    /\ accesses = NoAccesses
    /\ lockers = NoLockers
    /\ validators \in SUBSET Addresses
    /\ coreStarted = FALSE
    /\ peer = FreshNode(FALSE)
    /\ config = Config(FALSE, FALSE)
    /\ \/ \E versions \in VersionMaps :
             net = {Message(Self, IstanbulAnnounceVersionsMsg, VersionRecords(versions))}
       \/ \E valAddresses \in SUBSET Addresses :
             net = {Message(Self, IstanbulGetAnnouncesMsg, valAddresses)}

ReplyNext ==
    \/ HandleAnnounceVersions(Self)
    \/ HandleGetAnnounces(Self)

ReplySpec == ReplyInit /\ [][ReplyNext]_vars

\* The step handles message m: m leaves the network.
Handles(m) == m \in net /\ m \notin net'

\* What the step sends.
Sent == net' \ net

\* C17: a step that handles an AnnounceVersions message sends, to the peer
\* that sent it, one GetAnnounces whose addresses are exactly those that have
\* a version record in the message, are in the validator set, and are either
\* not cached or cached with a strictly lower timestamp than the record's;
\* it sends nothing if there is no such address; the cache is unchanged.
C17_RequestsExactlyTheOutdated ==
    [][\A m \in net :
          (Handles(m) /\ m.code = IstanbulAnnounceVersionsMsg) =>
              LET outdated ==
                      {a \in Addresses :
                          /\ a \in validators
                          /\ \E v \in m.body :
                                /\ v.ValAddress = a
                                /\ a \in DOMAIN cachedAnnounceMsgs =>
                                       cachedAnnounceMsgs[a].MsgTimestamp
                                           < v.AnnounceMsgTimestamp}
              IN  /\ outdated # {} =>
                        Sent = {[to |-> PeerAddress, code |-> IstanbulGetAnnouncesMsg,
                                 body |-> outdated]}
                  /\ outdated = {} => Sent = {}
                  /\ cachedAnnounceMsgs' = cachedAnnounceMsgs]_vars

\* A GetAnnounces on its way to the peer asks for address 3, cached here at
\* version 1, and for address 1, not cached here, and not for address 2,
\* which is cached.
C17_Witness ==
    /\ net = {Message(PeerAddress, IstanbulGetAnnouncesMsg, {1, 3})}
    /\ DOMAIN cachedAnnounceMsgs = {2, 3}
    /\ cachedAnnounceMsgs[3].MsgTimestamp = 1
    /\ validators = Addresses

\* C18: a step that handles a GetAnnounces message sends to the requesting
\* peer, under the Announce code, the cached payload of each requested
\* address that is cached, and nothing else; the cache is unchanged.
C18_RepliesWithCachedPayloads ==
    [][\A m \in net :
          (Handles(m) /\ m.code = IstanbulGetAnnouncesMsg) =>
              /\ \A a \in m.body :
                    IF a \in DOMAIN cachedAnnounceMsgs
                    THEN \E reply \in Sent :
                            reply.body = cachedAnnounceMsgs[a].MsgPayload
                    ELSE \A reply \in Sent : reply.body.Msg.ValAddress # a
              /\ \A reply \in Sent :
                    /\ reply.to = PeerAddress
                    /\ reply.code = IstanbulAnnounceMsg
                    /\ \E a \in m.body \cap DOMAIN cachedAnnounceMsgs :
                          reply.body = cachedAnnounceMsgs[a].MsgPayload
              /\ cachedAnnounceMsgs' = cachedAnnounceMsgs]_vars

\* The only message on its way is the cached announce of address 1, sent to
\* the peer, while the announce of address 2 is cached and was not sent.
C18_Witness ==
    /\ DOMAIN cachedAnnounceMsgs = {1, 2}
    /\ net = {Message(PeerAddress, IstanbulAnnounceMsg, cachedAnnounceMsgs[1].MsgPayload)}

(***************************************************************************)
(* gossipAnnounce under each proxy configuration.                           *)
(***************************************************************************)
ProxyInit ==
    /\ InitMaps
    /\ validators \in SUBSET Addresses
    /\ coreStarted = FALSE
    /\ peer = FreshNode(FALSE)
    /\ net = {}
    /\ config \in Configs

ProxySpec == ProxyInit /\ [][GossipNext]_vars

\* C19: on a proxied node with no proxy attached, a step of gossipAnnounce
\* returns errNoProxyConnection, leaves the announce cache as it was, leaves
\* no generated announce behind and multicasts nothing.
C19_NoProxyAbortsCleanly ==
    [][(config.Proxied /\ ~config.proxyNode /\ last'.op \in {"generateAnnounce", "gossipAnnounce"}) =>
          /\ last' = Outcome("gossipAnnounce", "errNoProxyConnection", FALSE, FALSE, FALSE)
          /\ cachedAnnounceMsgs' = cachedAnnounceMsgs
          /\ generated' = {}]_vars

\* gossipAnnounce has just failed for want of a proxy, on a started core.
C19_Witness ==
    /\ config = Config(TRUE, FALSE)
    /\ coreStarted
    /\ Self \in validators
    /\ last.op = "gossipAnnounce"
    /\ last.err = ErrNoProxyConnection
    /\ cachedAnnounceMsgs = EmptyMap

(***************************************************************************)
(* The accesses to sb.cachedAnnounceMsgs and the lock cachedAnnounceMsgsMu. *)
(* Each handler runs on the goroutine of the peer that sent the message,    *)
(* gossipAnnounce on goroutines the announce thread starts.                 *)
(***************************************************************************)
RaceFrame ==
    UNCHANGED <<node, maxAdmitted, regossipTimes, peer, net, loop, config, lockers>>

\* The handlers that read the map under RLock.
RLockReaders == {"handleGetAnnouncesMsg", "handleGetAnnounceVersionsMsg"}

\* cachedAnnounceMsgsMu is held for writing: handleAnnounceMsg is between
\* its Lock and its deferred Unlock.
WriteLocked == accesses.handleAnnounceMsg \in {"reading", "writing"}

\* cachedAnnounceMsgsMu is held for reading.
ReadLocked == \E g \in RLockReaders : accesses[g] = "reading"

\* handleAnnounceMsg: Lock, the timestamp comparison, then either the early
\* return or the cache write and the prune, and the deferred Unlock.
AnnounceHandlerAccess ==
    /\ \/ /\ accesses.handleAnnounceMsg = "idle"
          /\ accesses' = [accesses EXCEPT !.handleAnnounceMsg = "waiting"]
       \/ /\ accesses.handleAnnounceMsg = "waiting"
          /\ ~ReadLocked
          /\ accesses' = [accesses EXCEPT !.handleAnnounceMsg = "reading"]
       \/ /\ accesses.handleAnnounceMsg = "reading"
          /\ \E to \in {"writing", "idle"} :
                accesses' = [accesses EXCEPT !.handleAnnounceMsg = to]
       \/ /\ accesses.handleAnnounceMsg = "writing"
          /\ accesses' = [accesses EXCEPT !.handleAnnounceMsg = "idle"]
    /\ RaceFrame

\* handleGetAnnouncesMsg and handleGetAnnounceVersionsMsg: RLock, the reads,
\* the deferred RUnlock.  RLock waits while the lock is held for writing or a
\* writer waits for it.
RLockReaderAccess(g) ==
    /\ \/ /\ accesses[g] = "idle"
          /\ accesses' = [accesses EXCEPT ![g] = "waiting"]
       \/ /\ accesses[g] = "waiting"
          /\ ~WriteLocked
          /\ accesses.handleAnnounceMsg # "waiting"
          /\ accesses' = [accesses EXCEPT ![g] = "reading"]
       \/ /\ accesses[g] = "reading"
          /\ accesses' = [accesses EXCEPT ![g] = "idle"]
    /\ RaceFrame

\* handleAnnounceVersionsMsg: the map lookup of its loop, with no lock.
AnnounceVersionsAccess ==
    /\ accesses' = [accesses EXCEPT !.handleAnnounceVersionsMsg =
                                        IF @ = "idle" THEN "reading" ELSE "idle"]
    /\ RaceFrame

\* gossipAnnounce: a goroutine reaches its map write, with no lock.
GossipAnnounceWriteBegins ==
    /\ accesses.gossipAnnounce < MaxInFlight
    /\ accesses' = [accesses EXCEPT !.gossipAnnounce = @ + 1]
    /\ RaceFrame

GossipAnnounceWriteEnds ==
    /\ accesses.gossipAnnounce > 0
    /\ accesses' = [accesses EXCEPT !.gossipAnnounce = @ - 1]
    /\ RaceFrame

RaceInit ==
    /\ InitMaps
    /\ validators = Addresses
    /\ coreStarted = TRUE
    /\ peer = FreshNode(FALSE)
    /\ net = {}
    /\ config = Config(FALSE, FALSE)

RaceNext ==
    \/ AnnounceHandlerAccess
    \/ \E g \in RLockReaders : RLockReaderAccess(g)
    \/ AnnounceVersionsAccess
    \/ GossipAnnounceWriteBegins
    \/ GossipAnnounceWriteEnds

RaceSpec == RaceInit /\ [][RaceNext]_vars

\* The goroutines writing the map, and those reading it.
MapWriters ==
    accesses.gossipAnnounce + (IF accesses.handleAnnounceMsg = "writing" THEN 1 ELSE 0)

MapReaders ==
    Cardinality({g \in {"handleAnnounceMsg", "handleGetAnnouncesMsg",
                        "handleGetAnnounceVersionsMsg", "handleAnnounceVersionsMsg"} :
                    accesses[g] = "reading"})

\* C20: while a goroutine writes the announce cache map, no other goroutine
\* reads or writes it.
C20_CacheAccessesSerialized ==
    MapWriters > 0 => (MapWriters = 1 /\ MapReaders = 0)

(***************************************************************************)
(* The recipient list of a received announce, checked under Spec.           *)
(***************************************************************************)
\* The recipient list names no DecrypterAddress twice and none outside the
\* validator set.
CleanRecipients(payload) ==
    LET enodes == payload.Msg.EncryptedEnodes
    IN  /\ \A i \in DOMAIN enodes : enodes[i].DecrypterAddress \in validators
        /\ \A i, j \in DOMAIN enodes :
              enodes[i].DecrypterAddress = enodes[j].DecrypterAddress => i = j

\* The payload passes the signer check and the staleness check of the
\* handler.
PassesSignerAndStaleness(payload) ==
    /\ payload.Signature = payload.Address
    /\ payload.Address \in validators
    /\ payload.MsgDecodes
    /\ ~(/\ payload.Address \in DOMAIN cachedAnnounceMsgs
         /\ cachedAnnounceMsgs[payload.Address].MsgTimestamp >= payload.Msg.Timestamp)

\* C21: at every node, started validator or not, an announce that passed the
\* signer and staleness checks is admitted to the cache and handed to
\* regossipAnnounce exactly if its recipient list has no duplicate and no
\* DecrypterAddress outside the validator set; otherwise the cache and the
\* throttle stay as they are and nothing is multicast.
C21_AdmittedIffCleanRecipients ==
    \A payload \in PeerPayloads, draw \in RandDraws :
        LET r == HandlerResult(payload, draw)
        IN  PassesSignerAndStaleness(payload) =>
                /\ r.admitted <=> CleanRecipients(payload)
                /\ ~CleanRecipients(payload) =>
                      /\ r.cache = cachedAnnounceMsgs
                      /\ r.throttle = lastAnnounceGossiped
                      /\ ~r.multicast

(***************************************************************************)
(* The pace of the periodic announces, checked under LoopSpec.              *)
(***************************************************************************)
\* The first peer has been established and the gossip ticker is being read:
\* the next periodic announce comes one ticker period after the last one.
PacedAfterFirstPeer ==
    /\ loop.pc = "running"
    /\ loop.announceGossipTickerCh # NilCh
    /\ loop.announceGossipFrequencyState # HighFreqBeforeFirstPeerState

\* C22: after the first peer is established, the announces are one minute
\* apart for the first 10 of them and ten minutes apart from then on: while
\* fewer than 10 have been emitted since the first peer the gossip ticker
\* has the 1-minute period, and once 10 have been emitted it has the
\* 10-minute period.
C22_TenMessagesAtHighFrequency ==
    PacedAfterFirstPeer =>
        loop.announceGossipTicker.period =
            (IF loop.numGossipedMsgsInHighFreqAfterFirstPeerState
                    < NumHighFreqMsgsAfterFirstPeer
             THEN HighFreqTickerDuration
             ELSE LowFreqTickerDuration)

(***************************************************************************)
(* RegossipSpec: regossipAnnounce on its own, called as the handler calls   *)
(* it (for a signer of the validator set), as the clock advances.           *)
(***************************************************************************)
\* The announces regossipAnnounce is called with: of validator 2 for either
\* endpoint, and of validator 3.
RegossipPayloads ==
    {Announce(2, <<1, 2>>, url, 1) : url \in GoodURLs} \cup {Announce(3, <<1, 2>>, 1, 1)}

\* The destAddresses the handler passes: none (it did not scan), or those of
\* the two recipients in the order of the message.
RegossipDests ==
    {<<>>, <<AddressString(1), AddressString(2)>>, <<AddressString(2), AddressString(1)>>}

\* What is left at this node of validator 3, regossiped and upserted at
\* time 0 before it left the validator set.
ThrottleEntryOf3 ==
    [enodeURLHash |-> RLPHash(1), destAddressesHash |-> RLPHash(<<>>), timestamp |-> 0]

TableEntryOf3 == [Node |-> ParseV4(1), Timestamp |-> 1]

RegossipInit ==
    /\ cachedAnnounceMsgs = EmptyMap
    /\ now = 0
    /\ generated = {}
    /\ last = Outcome("init", ErrNil, FALSE, FALSE, FALSE)
    /\ maxAdmitted = [a \in Addresses |-> NoTimestamp]
    /\ regossipTimes = [a \in Addresses |-> EmptyMap]
    /\ loop = LoopStart
    /\ accesses = NoAccesses
    /\ lockers = NoLockers
    /\ coreStarted = FALSE
    /\ peer = FreshNode(FALSE)
    /\ net = {}
    /\ config = Config(FALSE, FALSE)
    /\ \/ /\ validators = Addresses
          /\ lastAnnounceGossiped = EmptyMap
          /\ valEnodeTable = EmptyMap
       \/ /\ validators = Addresses \ {3}
          /\ lastAnnounceGossiped \in {EmptyMap, Put(EmptyMap, 3, ThrottleEntryOf3)}
          /\ valEnodeTable \in {EmptyMap, Put(EmptyMap, 3, TableEntryOf3)}

\* The call of regossipAnnounce at line 460, for a signer that passed the
\* validator check of the handler.
RegossipResult(payload, destAddresses, draw) ==
    RegossipAnnounce(lastAnnounceGossiped, valEnodeTable, payload,
                     RetrieveActiveAndRegisteredValidators, destAddresses, now, draw)

Regossip(payload, destAddresses, draw) ==
    LET r == RegossipResult(payload, destAddresses, draw)
    IN  /\ payload.Address \in RetrieveActiveAndRegisteredValidators
        /\ lastAnnounceGossiped' = r.throttle
        /\ valEnodeTable' = r.table
        /\ last' = Outcome("regossipAnnounce", ErrNil, FALSE, r.multicast, r.pruned)
        /\ UNCHANGED <<cachedAnnounceMsgs, coreStarted, validators, now, generated>>

RegossipNext ==
    \/ Tick /\ Unrecorded
    \/ /\ \E payload \in RegossipPayloads, destAddresses \in RegossipDests,
             draw \in RandDraws : Regossip(payload, destAddresses, draw)
       /\ Unrecorded

RegossipSpec == RegossipInit /\ [][RegossipNext]_vars

\* The throttle holds, for the signer of the payload, an entry with the
\* hashes of this call that was recorded less than 60 seconds ago.
HeldByThrottle(payload, destAddresses) ==
    LET a == payload.Address
    IN  /\ a \in DOMAIN lastAnnounceGossiped
        /\ lastAnnounceGossiped[a].enodeURLHash = payload.Msg.EnodeURLHash
        /\ lastAnnounceGossiped[a].destAddressesHash = RLPHash(SortStrings(destAddresses))
        /\ now - lastAnnounceGossiped[a].timestamp < 60

\* C23: regossipAnnounce suppresses the multicast exactly when the throttle
\* holds an entry for the signer with the same two hashes recorded less than
\* 60 seconds ago, and then leaves the throttle as it is; in every other
\* case it multicasts and records the two hashes and the current time for
\* the signer, so that the same call made again at once or 30 seconds later
\* does not multicast.
C23_ThrottleDecision ==
    \A payload \in RegossipPayloads, destAddresses \in RegossipDests, draw \in RandDraws :
        LET a == payload.Address
            r == RegossipResult(payload, destAddresses, draw)
        IN  a \in validators =>
                /\ r.multicast <=> ~HeldByThrottle(payload, destAddresses)
                /\ HeldByThrottle(payload, destAddresses) =>
                      r.throttle = lastAnnounceGossiped
                /\ ~HeldByThrottle(payload, destAddresses) =>
                      /\ a \in DOMAIN r.throttle
                      /\ r.throttle[a] =
                            [enodeURLHash |-> payload.Msg.EnodeURLHash,
                             destAddressesHash |-> RLPHash(SortStrings(destAddresses)),
                             timestamp |-> now]
                      /\ \A later \in {now, now + TickSeconds}, again \in RandDraws :
                            ~RegossipAnnounce(r.throttle, r.table, payload, validators,
                                              destAddresses, later, again).multicast

\* regossipAnnounce has just suppressed a multicast for a signer it had
\* regossiped 30 seconds before, and the throttle also holds a signer that
\* was regossiped a minute ago.
C23_Witness ==
    /\ last.op = "regossipAnnounce"
    /\ ~last.multicast
    /\ \E a \in DOMAIN lastAnnounceGossiped : now - lastAnnounceGossiped[a].timestamp = 30
    /\ \E a \in DOMAIN lastAnnounceGossiped : now - lastAnnounceGossiped[a].timestamp = 60

\* C25: on every call of regossipAnnounce, whether the throttle permitted
\* the multicast or suppressed it, a prune gate that fires prunes the
\* throttle table and the validator-endpoint table to the validator set.
C25_PruneIndependentOfThrottle ==
    \A payload \in RegossipPayloads, destAddresses \in RegossipDests, draw \in RandDraws :
        LET r == RegossipResult(payload, destAddresses, draw)
        IN  (payload.Address \in validators /\ PruneGate(draw)) =>
                /\ r.pruned
                /\ DOMAIN r.throttle \subseteq validators
                /\ DOMAIN r.table \subseteq validators

(***************************************************************************)
(* What a successful gossipAnnounce leaves behind, checked under GossipSpec.*)
(***************************************************************************)
\* The step is the cache write and multicast of a gossipAnnounce goroutine
\* that returns nil.
OwnAnnounceStored ==
    /\ last'.op = "gossipAnnounce"
    /\ last'.err = ErrNil
    /\ generated' # generated

C27_CachedValAddressIsKey ==
    \A a \in DOMAIN cachedAnnounceMsgs :
        cachedAnnounceMsgs[a].MsgPayload.Msg.ValAddress = a

(***************************************************************************)
(* LockSpec: cachedAnnounceMsgsMu and lastAnnounceGossipedMu.  Each          *)
(* goroutine is at one of: "idle"; "cacheLock" / "cacheRLock" (it has called *)
(* Lock / RLock on the cache lock and waits); "inHandler" (handleAnnounceMsg *)
(* after its Lock); "cacheRead" (a reader after its RLock); "throttleRLock", *)
(* "throttleRead", "multicast", "throttleLock", "throttleWrite"              *)
(* (regossipAnnounce: waiting for RLock, between RLock and RUnlock, between  *)
(* RUnlock and Lock, waiting for Lock, after Lock).                          *)
(***************************************************************************)
LockFrame ==
    UNCHANGED <<node, maxAdmitted, regossipTimes, peer, net, loop, config, accesses>>

\* handleAnnounceMsg holds the cache lock from its Lock to its return, the
\* call of regossipAnnounce included.
HoldsCacheLock(pc) ==
    pc \in {"inHandler", "throttleRLock", "throttleRead", "multicast", "throttleLock",
            "throttleWrite"}

HoldsCacheRLock(pc) == pc = "cacheRead"

\* Mutant: a regossipAnnounce that keeps its read lock until it returns.
HoldsThrottleRLockUntilReturn(pc) ==
    pc \in {"throttleRead", "multicast", "throttleLock", "throttleWrite"}

\* regossipAnnounce holds the throttle read lock from RLock to the RUnlock
\* on either path.
HoldsThrottleRLock(pc) == pc = "throttleRead"

HoldsThrottleLock(pc) == pc = "throttleWrite"

\* sync.RWMutex: Lock waits for every holder; RLock waits for a writer that
\* holds the lock or has called Lock.
CanLockCache ==
    \A u \in LockTasks : ~HoldsCacheLock(lockers[u]) /\ ~HoldsCacheRLock(lockers[u])

CanRLockCache ==
    \A u \in LockTasks : ~HoldsCacheLock(lockers[u]) /\ lockers[u] # "cacheLock"

CanLockThrottle ==
    \A u \in LockTasks : ~HoldsThrottleLock(lockers[u]) /\ ~HoldsThrottleRLock(lockers[u])

CanRLockThrottle ==
    \A u \in LockTasks : ~HoldsThrottleLock(lockers[u]) /\ lockers[u] # "throttleLock"

\* Where a goroutine at pc can be next.
NextPcs(pc, reader) ==
    CASE pc = "idle" -> IF reader THEN {"cacheRLock"} ELSE {"cacheLock"}
      [] pc = "cacheRLock" -> IF CanRLockCache THEN {"cacheRead"} ELSE {}
      [] pc = "cacheRead" -> {"idle"}
      [] pc = "cacheLock" -> IF CanLockCache THEN {"inHandler"} ELSE {}
      [] pc = "inHandler" -> {"idle", "throttleRLock"}
      [] pc = "throttleRLock" -> IF CanRLockThrottle THEN {"throttleRead"} ELSE {}
      [] pc = "throttleRead" -> {"idle", "multicast"}
      [] pc = "multicast" -> {"throttleLock"}
      [] pc = "throttleLock" -> IF CanLockThrottle THEN {"throttleWrite"} ELSE {}
      [] pc = "throttleWrite" -> {"idle"}

\* handleAnnounceMsg and the regossipAnnounce it calls.
AnnounceHandlerMoves(t) ==
    /\ \E pc \in NextPcs(lockers[t], FALSE) : lockers' = [lockers EXCEPT ![t] = pc]
    /\ LockFrame

\* handleGetAnnouncesMsg and handleGetAnnounceVersionsMsg.
CacheReaderMoves(t) ==
    /\ \E pc \in NextPcs(lockers[t], TRUE) : lockers' = [lockers EXCEPT ![t] = pc]
    /\ LockFrame

LockNext ==
    \/ \E t \in AnnounceHandlers : AnnounceHandlerMoves(t)
    \/ \E t \in CacheReaders : CacheReaderMoves(t)

LockSpec == RaceInit /\ [][LockNext]_vars

\* The goroutine touches the throttle lock: it waits for it or holds it.
AtThrottleLock(pc) ==
    \/ pc \in {"throttleRLock", "throttleLock"}
    \/ HoldsThrottleRLock(pc)
    \/ HoldsThrottleLock(pc)

\* The goroutine is in a handler and can take its next step.
CanMove(t) == lockers[t] # "idle" /\ NextPcs(lockers[t], t \in CacheReaders) # {}

\* C26: a goroutine that waits for or holds the throttle lock holds the
\* cache lock (the cache lock is taken first); a goroutine that waits for
\* the cache lock holds no throttle lock; a goroutine that waits for the
\* throttle write lock has released its throttle read lock; and whenever
\* some goroutine is in a handler, one of those in a handler can take its
\* next step: never are all of them blocked on a lock.
C26_LockOrderAndNoDeadlock ==
    /\ \A t \in LockTasks :
          /\ AtThrottleLock(lockers[t]) => HoldsCacheLock(lockers[t])
          /\ lockers[t] \in {"cacheLock", "cacheRLock"} =>
                ~HoldsThrottleRLock(lockers[t]) /\ ~HoldsThrottleLock(lockers[t])
          /\ lockers[t] = "throttleLock" => ~HoldsThrottleRLock(lockers[t])
    /\ (\E t \in LockTasks : lockers[t] # "idle") => \E t \in LockTasks : CanMove(t)

\* One handleAnnounceMsg is in regossipAnnounce, waiting for the throttle
\* write lock it can take, while the other handleAnnounceMsg and both readers
\* wait for the cache lock.
C26_Witness ==
    /\ lockers["handleAnnounceMsg.1"] = "throttleLock"
    /\ lockers["handleAnnounceMsg.2"] = "cacheLock"
    /\ \A t \in CacheReaders : lockers[t] = "cacheRLock"
    /\ CanLockThrottle

=============================================================================
